---- MODULE Spec2Model ----
(***************************************************************************)
(* State-machine model of the SaaS starter backend (src/main.py): the      *)
(* register, login, list_blogs and contact handlers over the document      *)
(* store collections user, blogpost and contactmessage.                    *)
(*                                                                         *)
(* Every store operation of a handler is one atomic step, so that requests *)
(* served concurrently interleave between store operations.  Spec is the   *)
(* concurrent system; SpecSeq serves the requests one at a time.           *)
(*                                                                         *)
(* Python's None and optional values are modelled as sequences of length   *)
(* at most one: <<>> is None, <<v>> is the value v.  The clock counts      *)
(* whole seconds, the resolution of a token's exp claim, and advances      *)
(* with every arriving request.                                            *)
(***************************************************************************)
EXTENDS Integers, Sequences, FiniteSets, TLC

\* ---------------------------------------------------------------- bounds
MaxRequests == 3

Requests == 1..MaxRequests
\* The request inputs: two passwords for one address, and a second address.
Credentials == { [email |-> "ada@x.io", password |-> "pw1"],
                 [email |-> "ada@x.io", password |-> "pw2"],
                 [email |-> "bob@x.io", password |-> "pw1"] }
Salts == {"salt1"}
Names == {"Ada"}
ContactEmails == {"ada@x.io"}
Subjects == {<<>>}

\* ------------------------------------------------------ program constants
JWT_SECRET == "supersecretkey"
JWT_ALG == "HS256"
JWT_EXPIRES_MIN == 60 * 24 * 7
DefaultLimit == 6
Limits == {DefaultLimit}

VARIABLES
    db,              \* the module-level store handle: "None" or "connected"
    user,            \* collection user, in insertion (natural) order
    blogpost,        \* collection blogpost
    contactmessage,  \* collection contactmessage
    next_oid,        \* the next identifier the store generates
    now,             \* datetime.utcnow(), in seconds
    pc,              \* per request: the store operation it is about to run
    kind,            \* per request: the handler serving it
    payload,         \* per request: the validated request body / query
    local,           \* per request: the handler's local variables
    response,        \* per request: the response sent to the client
    ops,             \* per request: the store operations it has issued
    at               \* per request: the clock at its first and at its last step

vars == <<db, user, blogpost, contactmessage, next_oid, now,
          pc, kind, payload, local, response, ops, at>>

\* ------------------------------------------------------------ identifiers
\* The store's native identifier and its str() form are different values.
ObjectId(n) == [type |-> "ObjectId", n |-> n]

str(x) == IF x.type = "ObjectId" THEN [type |-> "str", n |-> x.n] ELSE x

\* ---------------------------------------------------------------- helpers
\* dict.pop(key, None)
pop(d, key) == [k \in (DOMAIN d) \ {key} |-> d[k]]

\* d[key] = value
set(d, key, value) == [k \in (DOMAIN d) \cup {key} |-> IF k = key THEN value ELSE d[k]]

hash_password(password, salt) ==
    [scheme |-> "bcrypt", salt |-> salt, digest |-> <<salt, password>>]

verify_password(password, hashed) ==
    hashed.digest = <<hashed.salt, password>>

\* jwt.encode: header, claims and signature segments of the compact token
jwt_encode(claims, key, alg) ==
    <<[alg |-> alg, typ |-> "JWT"], claims, [alg |-> alg, key |-> key]>>

\* Mutant: to_encode aliases data instead of copying it.
create_access_token_nocopy(data, t) ==
    LET expire == t + JWT_EXPIRES_MIN * 60
        to_encode == set(data, "exp", expire)
    IN  [token |-> jwt_encode(to_encode, JWT_SECRET, JWT_ALG), data |-> to_encode]

\* Returns the token and the caller's mapping as the call leaves it.
create_access_token(data, t) ==
    LET to_encode == data
        expire == t + JWT_EXPIRES_MIN * 60
        encoded_jwt == jwt_encode(set(to_encode, "exp", expire), JWT_SECRET, JWT_ALG)
    IN  [token |-> encoded_jwt, data |-> data]

HTTPException(status_code, detail) ==
    [status |-> status_code, detail |-> detail, body |-> <<>>]

Ok(body) == [status |-> 200, detail |-> "", body |-> <<body>>]

NoResponse == [status |-> 0, detail |-> "", body |-> <<>>]

\* ------------------------------------------------------- store operations
RECURSIVE find_one(_, _)
find_one(coll, email) ==
    IF coll = <<>> THEN <<>>
    ELSE IF Head(coll).email = email THEN <<Head(coll)>>
    ELSE find_one(Tail(coll), email)

count_documents(coll) == Len(coll)

insert_one(coll, doc, oid) == Append(coll, set(doc, "_id", oid))

RECURSIVE insert_many(_, _, _)
insert_many(coll, docs, n) ==
    IF docs = <<>> THEN coll
    ELSE insert_many(insert_one(coll, Head(docs), ObjectId(n)), Tail(docs), n + 1)

RECURSIVE find_published(_)
find_published(coll) ==
    IF coll = <<>> THEN <<>>
    ELSE IF Head(coll).published THEN <<Head(coll)>> \o find_published(Tail(coll))
    ELSE find_published(Tail(coll))

get_documents(coll, limit) ==
    LET found == find_published(coll)
    IN  IF Len(found) <= limit THEN found ELSE SubSeq(found, 1, limit)

create_document(coll, doc, oid) ==
    [coll |-> insert_one(coll, doc, oid), id |-> str(oid)]

\* --------------------------------------------------------------- handlers
\* Mutant: contact runs without the store check.
contact_db_none_skipped == FALSE

register_db_none == db = "None"
login_db_none == db = "None"
list_blogs_db_none == db = "None"
contact_db_none == db = "None"

\* datetime.utcnow() as a step of request r reads it: the clock advances with
\* every arriving request.
utcnow(r) == IF pc[r] = "idle" THEN now + 1 ELSE now

\* Requests are numbered in their order of arrival.
Arrives(r) == pc[r] = "idle" /\ \A q \in Requests : q < r => pc[q] # "idle"

Respond(r, k, p, loc, resp, issued) ==
    /\ pc' = [pc EXCEPT ![r] = "done"]
    /\ kind' = [kind EXCEPT ![r] = k]
    /\ payload' = [payload EXCEPT ![r] = p]
    /\ local' = [local EXCEPT ![r] = loc]
    /\ response' = [response EXCEPT ![r] = resp]
    /\ ops' = [ops EXCEPT ![r] = ops[r] \o issued]
    /\ at' = [at EXCEPT ![r] = [start |-> IF pc[r] = "idle" THEN utcnow(r) ELSE @.start,
                                end |-> utcnow(r)]]
    /\ now' = utcnow(r)

\* Mutant: the lookup's result is ignored.
register_conflict_ignored(existing) == FALSE

register_conflict(existing) == existing # <<>>

register_user_doc(p, salt, t) ==
    [name |-> p.name, email |-> p.email,
     password_hash |-> hash_password(p.password, salt),
     avatar_url |-> <<>>, plan |-> "free", is_active |-> TRUE,
     created_at |-> t, updated_at |-> t]

\* Mutant: the inserted identifier is returned as the store gave it.
register_result_native(user_doc, inserted_id, token) ==
    [token |-> token, user |-> set(pop(user_doc, "password_hash"), "_id", inserted_id)]

register_result(user_doc, inserted_id, token) ==
    [token |-> token, user |-> set(pop(user_doc, "password_hash"), "_id", str(inserted_id))]

\* Mutant: the insert is issued twice.
register_insert_twice(coll, user_doc, inserted_id) ==
    insert_one(insert_one(coll, user_doc, inserted_id), user_doc, inserted_id)

\* res = db["user"].insert_one(user_doc)
register_insert(coll, user_doc, inserted_id) == insert_one(coll, user_doc, inserted_id)

register_find_one(r) ==
    /\ Arrives(r)
    /\ \E name \in Names, c \in Credentials :
         LET p == [name |-> name, email |-> c.email, password |-> c.password]
             existing == find_one(user, p.email)
         IN  IF register_db_none
             THEN Respond(r, "register", p, [existing |-> <<>>],
                          HTTPException(500, "Database not available"), <<>>)
             ELSE IF register_conflict(existing)
             THEN Respond(r, "register", p, [existing |-> existing],
                          HTTPException(400, "Email already registered"),
                          <<"user.find_one">>)
             ELSE /\ pc' = [pc EXCEPT ![r] = "insert_one"]
                  /\ kind' = [kind EXCEPT ![r] = "register"]
                  /\ payload' = [payload EXCEPT ![r] = p]
                  /\ local' = [local EXCEPT ![r] = [existing |-> existing]]
                  /\ ops' = [ops EXCEPT ![r] = <<"user.find_one">>]
                  /\ at' = [at EXCEPT ![r].start = utcnow(r)]
                  /\ now' = utcnow(r)
                  /\ UNCHANGED response
    /\ UNCHANGED <<db, user, blogpost, contactmessage, next_oid>>

register_insert_one(r) ==
    /\ pc[r] = "insert_one"
    /\ \E salt \in Salts :
         LET user_doc == register_user_doc(payload[r], salt, utcnow(r))
             inserted_id == ObjectId(next_oid)
             issued == create_access_token(
                           [sub |-> str(inserted_id), email |-> payload[r].email], utcnow(r))
         IN  /\ user' = register_insert(user, user_doc, inserted_id)
             /\ next_oid' = next_oid + 1
             /\ Respond(r, "register", payload[r],
                        [existing |-> local[r].existing, inserted_id |-> inserted_id,
                         data |-> <<issued.data>>],
                        Ok(register_result(user_doc, inserted_id, issued.token)),
                        <<"user.insert_one">>)
    /\ UNCHANGED <<db, blogpost, contactmessage>>

login_result(user_rec, token) ==
    [token |-> token, user |-> pop(set(user_rec, "_id", str(user_rec._id)), "password_hash")]

\* Mutant: a wrong password is reported as such.
login_outcome_telling(p, found, t) ==
    IF found = <<>>
    THEN [response |-> HTTPException(400, "Invalid credentials"), data |-> <<>>]
    ELSE IF ~verify_password(p.password, found[1].password_hash)
    THEN [response |-> HTTPException(400, "Wrong password"), data |-> <<>>]
    ELSE LET issued == create_access_token(
                           [sub |-> str(found[1]._id), email |-> found[1].email], t)
         IN  [response |-> Ok(login_result(found[1], issued.token)),
              data |-> <<issued.data>>]

\* The outcome of login once the lookup has returned `found`.
login_outcome(p, found, t) ==
    IF found = <<>>
    THEN [response |-> HTTPException(400, "Invalid credentials"), data |-> <<>>]
    ELSE IF ~verify_password(p.password, found[1].password_hash)
    THEN [response |-> HTTPException(400, "Invalid credentials"), data |-> <<>>]
    ELSE LET issued == create_access_token(
                           [sub |-> str(found[1]._id), email |-> found[1].email], t)
         IN  [response |-> Ok(login_result(found[1], issued.token)),
              data |-> <<issued.data>>]

login(r) ==
    /\ Arrives(r)
    /\ \E c \in Credentials :
         LET p == [email |-> c.email, password |-> c.password]
             found == find_one(user, p.email)
             out == login_outcome(p, found, utcnow(r))
         IN  IF login_db_none
             THEN Respond(r, "login", p, [user |-> <<>>, data |-> <<>>],
                          HTTPException(500, "Database not available"), <<>>)
             ELSE Respond(r, "login", p, [user |-> found, data |-> out.data],
                          out.response, <<"user.find_one">>)
    /\ UNCHANGED <<db, user, blogpost, contactmessage, next_oid>>

seed_post(title, slug, excerpt, tags, t) ==
    [title |-> title, slug |-> slug, excerpt |-> <<excerpt>>,
     content |-> "Long form content...", author |-> "Team", tags |-> tags,
     published |-> TRUE, published_at |-> <<t>>, cover_image |-> <<>>,
     created_at |-> t, updated_at |-> t]

seed_posts(t) ==
    << seed_post("Designing Trust in Fintech", "designing-trust-in-fintech",
                 "How micro-interactions and clear copy build confidence in digital banking.",
                 <<"design", "fintech">>, t),
       seed_post("Pricing Psychology 101", "pricing-psychology-101",
                 "Make tiers that guide choices without pressure.",
                 <<"pricing", "growth">>, t),
       seed_post("Your First 100 Users", "your-first-100-users",
                 "Practical channels to get traction for your SaaS.",
                 <<"growth">>, t) >>

\* Mutant: the demo posts are inserted whatever the count.
list_blogs_seeds_always(count) == TRUE

\* Seed a few demo posts if empty
list_blogs_seeds(count) == count = 0

\* Mutant: the insert applies only while the collection is still empty.
list_blogs_seed_if_empty(coll, t, n) ==
    IF coll = <<>> THEN insert_many(coll, seed_posts(t), n) ELSE coll

\* if seed_posts: db["blogpost"].insert_many(seed_posts)
list_blogs_seed(coll, t, n) ==
    IF seed_posts(t) # <<>> THEN insert_many(coll, seed_posts(t), n) ELSE coll

list_blogs_items(docs) ==
    [i \in 1..Len(docs) |-> set(docs[i], "_id", str(docs[i]._id))]

list_blogs_count(r) ==
    /\ Arrives(r)
    /\ \E limit \in Limits :
         LET p == [limit |-> limit]
             count == count_documents(blogpost)
         IN  IF list_blogs_db_none
             THEN Respond(r, "list_blogs", p, [count |-> 0, seeded |-> FALSE],
                          HTTPException(500, "Database not available"), <<>>)
             ELSE /\ pc' = [pc EXCEPT ![r] =
                              IF list_blogs_seeds(count) THEN "insert_many"
                              ELSE "get_documents"]
                  /\ kind' = [kind EXCEPT ![r] = "list_blogs"]
                  /\ payload' = [payload EXCEPT ![r] = p]
                  /\ local' = [local EXCEPT ![r] = [count |-> count, seeded |-> FALSE]]
                  /\ ops' = [ops EXCEPT ![r] = <<"blogpost.count_documents">>]
                  /\ at' = [at EXCEPT ![r].start = utcnow(r)]
                  /\ now' = utcnow(r)
                  /\ UNCHANGED response
    /\ UNCHANGED <<db, user, blogpost, contactmessage, next_oid>>

list_blogs_insert_many(r) ==
    /\ pc[r] = "insert_many"
    /\ blogpost' = list_blogs_seed(blogpost, utcnow(r), next_oid)
    /\ next_oid' = next_oid + Len(seed_posts(utcnow(r)))
    /\ pc' = [pc EXCEPT ![r] = "get_documents"]
    /\ local' = [local EXCEPT ![r].seeded = TRUE]
    /\ ops' = [ops EXCEPT ![r] = ops[r] \o <<"blogpost.insert_many">>]
    /\ UNCHANGED <<db, user, contactmessage, now, kind, payload, response, at>>

list_blogs_get_documents(r) ==
    /\ pc[r] = "get_documents"
    /\ LET docs == get_documents(blogpost, payload[r].limit)
       IN  Respond(r, "list_blogs", payload[r], local[r],
                   Ok([items |-> list_blogs_items(docs)]), <<"blogpost.find">>)
    /\ UNCHANGED <<db, user, blogpost, contactmessage, next_oid>>

contact_doc(p, t) ==
    [name |-> p.name, email |-> p.email, subject |-> p.subject,
     message |-> p.message, meta |-> p.meta, created_at |-> t, updated_at |-> t]

contact(r) ==
    /\ Arrives(r)
    /\ \E name \in Names, email \in ContactEmails, subject \in Subjects :
         LET p == [name |-> name, email |-> email, subject |-> subject,
                   message |-> "hi", meta |-> <<>>]
             created == create_document(contactmessage, contact_doc(p, utcnow(r)),
                                        ObjectId(next_oid))
         IN  IF contact_db_none
             THEN /\ Respond(r, "contact", p, <<>>,
                             HTTPException(500, "Database not available"), <<>>)
                  /\ UNCHANGED <<contactmessage, next_oid>>
             ELSE /\ contactmessage' = created.coll
                  /\ next_oid' = next_oid + 1
                  /\ Respond(r, "contact", p, <<>>,
                             Ok([status |-> "ok", id |-> created.id]),
                             <<"contactmessage.insert_one">>)
    /\ UNCHANGED <<db, user, blogpost>>

Init ==
    /\ db \in {"None", "connected"}
    /\ user = <<>>
    /\ blogpost = <<>>
    /\ contactmessage = <<>>
    /\ next_oid = 1
    /\ now = 0
    /\ pc = [r \in Requests |-> "idle"]
    /\ kind = [r \in Requests |-> "none"]
    /\ payload = [r \in Requests |-> <<>>]
    /\ local = [r \in Requests |-> <<>>]
    /\ response = [r \in Requests |-> NoResponse]
    /\ ops = [r \in Requests |-> <<>>]
    /\ at = [r \in Requests |-> [start |-> 0, end |-> 0]]

Next ==
    \/ \E r \in Requests : register_find_one(r)
    \/ \E r \in Requests : register_insert_one(r)
    \/ \E r \in Requests : login(r)
    \/ \E r \in Requests : list_blogs_count(r)
    \/ \E r \in Requests : list_blogs_insert_many(r)
    \/ \E r \in Requests : list_blogs_get_documents(r)
    \/ \E r \in Requests : contact(r)

Spec == Init /\ [][Next]_vars

\* Requests served one at a time: a request takes a step only while no other
\* request is between its first store operation and its response.
Alone(r) == \A q \in Requests \ {r} : pc[q] \in {"idle", "done"}

NextSeq ==
    \/ \E r \in Requests : Alone(r) /\ register_find_one(r)
    \/ \E r \in Requests : Alone(r) /\ register_insert_one(r)
    \/ \E r \in Requests : Alone(r) /\ login(r)
    \/ \E r \in Requests : Alone(r) /\ list_blogs_count(r)
    \/ \E r \in Requests : Alone(r) /\ list_blogs_insert_many(r)
    \/ \E r \in Requests : Alone(r) /\ list_blogs_get_documents(r)
    \/ \E r \in Requests : Alone(r) /\ contact(r)

SpecSeq == Init /\ [][NextSeq]_vars

\* ================================================================= claims
Done(r) == pc[r] = "done"
Succeeded(r) == Done(r) /\ response[r].status = 200
Body(r) == response[r].body[1]
Claims(token) == token[2]
IsPlainString(x) == x.type = "str"
SevenDays == 7 * 24 * 60 * 60
Count(coll, email) == Cardinality({i \in 1..Len(coll) : coll[i].email = email})
SlugCount(coll, slug) == Cardinality({i \in 1..Len(coll) : coll[i].slug = slug})
Writes(r) ==
    Cardinality({i \in 1..Len(ops[r]) :
                   ops[r][i] \in {"user.insert_one", "blogpost.insert_many",
                                  "contactmessage.insert_one"}})

\* A {token, user} response: a non-empty token, a user payload without the hash.
AuthOk(r) ==
    /\ Succeeded(r)
    /\ Body(r).token # <<>>
    /\ "password_hash" \notin DOMAIN Body(r).user

\* l was sent after r had been answered, with r's email and password.
LoginFollows(l, r) ==
    /\ kind[l] = "login" /\ Done(l)
    /\ at[l].start > at[r].end
    /\ payload[l].email = payload[r].email
    /\ payload[l].password = payload[r].password

\* r is a register request whose lookup found no User with its email.
RegistersFresh(r) ==
    /\ kind[r] = "register" /\ pc[r] # "idle"
    /\ db = "connected"
    /\ local[r].existing = <<>>

\* C1: a register whose email is not yet in the user collection succeeds, and
\* a following login with the same email and password succeeds; both answer
\* with a non-empty token and a user payload without password_hash.
C1_RegisterThenLogin ==
    \A r \in Requests :
        (RegistersFresh(r) /\ Done(r)) =>
            /\ AuthOk(r)
            /\ \A l \in Requests : LoginFollows(l, r) => AuthOk(l)

\* C2: a register sent after a successful register of the same email is
\* answered 400 "Email already registered" and writes nothing: the user
\* collection holds, for that email, only the records of the registers that
\* succeeded.
SecondRegister(r1, r2) ==
    /\ kind[r1] = "register" /\ Succeeded(r1)
    /\ kind[r2] = "register" /\ pc[r2] # "idle"
    /\ payload[r2].email = payload[r1].email
    /\ at[r2].start > at[r1].end

C2_SecondRegisterConflicts ==
    \A r1, r2 \in Requests :
        SecondRegister(r1, r2) =>
            /\ response[r2] = HTTPException(400, "Email already registered")
            /\ Writes(r2) = 0
            /\ Count(user, payload[r2].email) =
                   Cardinality({r \in Requests :
                                  /\ kind[r] = "register" /\ Succeeded(r)
                                  /\ payload[r].email = payload[r2].email})

C2_Witness ==
    \E r1, r2 \in Requests : SecondRegister(r1, r2) /\ Len(user) = 1

\* C3: a login for an email without a User record and a login with a wrong
\* password for an existing email get the identical response, status 400
\* and "Invalid credentials".
UnknownEmail(l) ==
    kind[l] = "login" /\ Done(l) /\ db = "connected" /\ local[l].user = <<>>

WrongPassword(l) ==
    /\ kind[l] = "login" /\ Done(l) /\ db = "connected"
    /\ local[l].user # <<>>
    /\ ~verify_password(payload[l].password, local[l].user[1].password_hash)

C3_FailedLoginsIdentical ==
    \A l1, l2 \in Requests :
        (UnknownEmail(l1) /\ WrongPassword(l2)) =>
            /\ response[l1] = response[l2]
            /\ response[l1].status = 400
            /\ response[l1].detail = "Invalid credentials"

C3_Witness ==
    \E l1, l2 \in Requests : UnknownEmail(l1) /\ WrongPassword(l2)

\* C4: with requests served one at a time on an initially empty blogpost
\* collection, every list_blogs call with the default limit returns the same
\* 3 items, and the collection holds exactly 3 records after any number of
\* calls.
ListedDefault(r) ==
    kind[r] = "list_blogs" /\ Succeeded(r) /\ payload[r].limit = DefaultLimit

C4_SeedingIdempotent ==
    /\ (\E r \in Requests : kind[r] = "list_blogs" /\ Succeeded(r)) =>
           Len(blogpost) = 3
    /\ \A r \in Requests :
           ListedDefault(r) =>
               /\ Len(Body(r).items) = 3
               /\ Body(r).items = list_blogs_items(blogpost)
    /\ \A r1, r2 \in Requests :
           (ListedDefault(r1) /\ ListedDefault(r2)) => Body(r1).items = Body(r2).items

C4_Witness ==
    \E r1, r2 \in Requests :
        /\ r1 # r2 /\ ListedDefault(r1) /\ ListedDefault(r2)
        /\ at[r2].start > at[r1].end

\* C5: with the store unavailable every request is answered in its first
\* step with 500 "Database not available", issues no store operation and no
\* token, and the collections stay as they were.
C5_UnavailableFailsAtOnce ==
    db = "None" =>
        /\ \A r \in Requests :
               /\ pc[r] \in {"idle", "done"}
               /\ ops[r] = <<>>
               /\ Done(r) => /\ response[r] = HTTPException(500, "Database not available")
                             /\ at[r].start = at[r].end
        /\ user = <<>> /\ blogpost = <<>> /\ contactmessage = <<>>
        /\ next_oid = 1

C5_Witness ==
    /\ db = "None"
    /\ \A r \in Requests : Done(r)
    /\ \E r \in Requests : kind[r] = "contact"
    /\ \E r \in Requests : kind[r] = "list_blogs"
    /\ \E r \in Requests : kind[r] \in {"register", "login"}

\* C6: every record identifier in a response (the user's _id and the token's
\* sub of register and login, each listed item's _id, the contact id) is a
\* plain string, never the store's native identifier.
C6_IdentifiersArePlainStrings ==
    \A r \in Requests :
        Succeeded(r) =>
            /\ kind[r] \in {"register", "login"} =>
                   /\ IsPlainString(Body(r).user._id)
                   /\ IsPlainString(Claims(Body(r).token).sub)
            /\ kind[r] = "list_blogs" =>
                   \A i \in 1..Len(Body(r).items) : IsPlainString(Body(r).items[i]._id)
            /\ kind[r] = "contact" => IsPlainString(Body(r).id)

C6_Witness ==
    /\ \E r \in Requests : kind[r] = "register" /\ Succeeded(r)
    /\ \E r \in Requests : kind[r] = "list_blogs" /\ Succeeded(r) /\ Body(r).items # <<>>
    /\ \E r \in Requests : kind[r] = "contact" /\ Succeeded(r)

\* C7: every list_blogs request that observed count zero inserts the whole
\* demo set, so k such requests leave every demo slug k times in the
\* collection; with two concurrent first requests it holds more than 3
\* records.
SeededOnZero == {r \in Requests : /\ kind[r] = "list_blogs"
                                  /\ pc[r] \in {"get_documents", "done"}
                                  /\ db = "connected"
                                  /\ local[r].count = 0}

C7_EachZeroObserverSeeds ==
    \A i \in 1..Len(seed_posts(now)) :
        SlugCount(blogpost, seed_posts(now)[i].slug) = Cardinality(SeededOnZero)

C7_Witness ==
    /\ Cardinality(SeededOnZero) >= 2
    /\ \A r \in SeededOnZero : Done(r)
    /\ Len(blogpost) > 3
    /\ \E i, j \in 1..Len(blogpost) : i # j /\ blogpost[i].slug = blogpost[j].slug

\* C8: a request writes at most once: the user collection holds one record
\* per successful register, contactmessage one per successful contact,
\* blogpost one demo set per seeding list_blogs, and a login or a request
\* answered with a failure has written nothing.
C8_AtMostOneWrite ==
    /\ \A r \in Requests :
           /\ Writes(r) <= 1
           /\ (Done(r) /\ (kind[r] = "login" \/ response[r].status # 200)) => Writes(r) = 0
           /\ (Succeeded(r) /\ kind[r] \in {"register", "contact"}) => Writes(r) = 1
    /\ Len(user) = Cardinality({r \in Requests : kind[r] = "register" /\ Succeeded(r)})
    /\ Len(contactmessage) =
           Cardinality({r \in Requests : kind[r] = "contact" /\ Succeeded(r)})
    /\ Len(blogpost) =
           3 * Cardinality({r \in Requests : kind[r] = "list_blogs" /\ Writes(r) = 1})
    /\ next_oid = 1 + Len(user) + Len(contactmessage) + Len(blogpost)

C8_Witness ==
    /\ \E r \in Requests : kind[r] = "register" /\ Succeeded(r)
    /\ \E r \in Requests : kind[r] = "register" /\ Done(r) /\ response[r].status = 400
    /\ \E r \in Requests : kind[r] = "login" /\ Done(r)

\* C9: a token of register or login carries exactly sub, email and exp: sub
\* the stringified identifier and email the email of the User record, exp the
\* issue time plus 7 days; a login's token has the sub and email of the token
\* of that user's registration, and the mapping passed in is left unchanged.
Issued(r) == kind[r] \in {"register", "login"} /\ Succeeded(r)

UserRecord(r) == CHOOSE i \in 1..Len(user) : str(user[i]._id) = Body(r).user._id

C9_TokenClaims ==
    /\ \A r \in Requests :
           Issued(r) =>
               /\ DOMAIN Claims(Body(r).token) = {"sub", "email", "exp"}
               /\ \E i \in 1..Len(user) : str(user[i]._id) = Body(r).user._id
               /\ Claims(Body(r).token).sub = str(user[UserRecord(r)]._id)
               /\ Claims(Body(r).token).email = user[UserRecord(r)].email
               /\ Claims(Body(r).token).exp = at[r].end + SevenDays
               /\ DOMAIN local[r].data[1] = {"sub", "email"}
    /\ \A r, l \in Requests :
           (/\ Issued(r) /\ kind[r] = "register"
            /\ Issued(l) /\ kind[l] = "login"
            /\ Body(l).user._id = Body(r).user._id) =>
               /\ Claims(Body(l).token).sub = Claims(Body(r).token).sub
               /\ Claims(Body(l).token).email = Claims(Body(r).token).email

C9_Witness ==
    \E r, l \in Requests :
        /\ Issued(r) /\ kind[r] = "register"
        /\ Issued(l) /\ kind[l] = "login"
        /\ Body(l).user._id = Body(r).user._id
        /\ Claims(Body(l).token).exp > Claims(Body(r).token).exp

\* C10: the user collection holds at most one User record per email.
C10_OneUserPerEmail ==
    \A i, j \in 1..Len(user) : user[i].email = user[j].email => i = j
====
